---- MODULE Spec2Model ----
(***************************************************************************)
(* Model of src/jubrapp.py: the classifier analisar_processos (a table of  *)
(* case movements, three column names and a list of archival terms in; the *)
(* archived case numbers and one detail record per archived case out) and  *)
(* the part of the Streamlit page that feeds it (the term text area, the   *)
(* column mapping check, the analysis button).                             *)
(*                                                                         *)
(* A text is a sequence of one-character strings.  A table is a sequence   *)
(* of rows, a row a function from column names to texts.  The cells of the *)
(* model are all texts (spec section 3: identifiers and movement types are *)
(* strings, dates are day-first texts); empty cells (NaN) and date texts   *)
(* whose reading depends on the pandas version (a first field above 12     *)
(* read month-first, ISO dates) are outside the inputs enumerated here.    *)
(***************************************************************************)
EXTENDS Integers, Sequences, FiniteSets

VARIABLES
    desempate,         \* how this build's unstable sort leaves rows of equal date
    df,                \* the uploaded table (line 105/107)
    movimentos_input,  \* the lines of the term text area (line 87)
    col_processo,      \* the three mapped column names (lines 120-124)
    col_movimento,
    col_data,
    retorno,           \* what the last call of analisar_processos returned, if any
    erro               \* the st.error message the last step showed, "" if none

vars == <<desempate, df, movimentos_input, col_processo, col_movimento, col_data,
          retorno, erro>>

----------------------------------------------------------------------------
(* Bounds of the model *)

MaxLinhas == 2

MaxTermos == 2

----------------------------------------------------------------------------
(* Texts *)

Maiusculas ==
    <<"A", "B", "C", "D", "E", "F", "G", "H", "I", "J", "K", "L", "M",
      "N", "O", "P", "Q", "R", "S", "T", "U", "V", "W", "X", "Y", "Z">>

Minusculas ==
    <<"a", "b", "c", "d", "e", "f", "g", "h", "i", "j", "k", "l", "m",
      "n", "o", "p", "q", "r", "s", "t", "u", "v", "w", "x", "y", "z">>

Digitos == <<"0", "1", "2", "3", "4", "5", "6", "7", "8", "9">>

EmTabela(t, c) == \E i \in 1..Len(t) : t[i] = c

posicao(t, c) == CHOOSE i \in 1..Len(t) : t[i] = c

\* the characters the texts of the model are made of
Caracteres ==
    {" ", "/"} \cup {Digitos[i] : i \in 1..10}
        \cup {Maiusculas[i] : i \in 1..26} \cup {Minusculas[i] : i \in 1..26}

\* str.lower() on one character
lower_char ==
    [c \in Caracteres |->
        IF EmTabela(Maiusculas, c) THEN Minusculas[posicao(Maiusculas, c)] ELSE c]

\* str.lower()
lower(s) == [i \in 1..Len(s) |-> lower_char[s[i]]]

\* the characters str.strip() removes
EhEspaco(c) == c = " "

RECURSIVE lstrip(_)
lstrip(s) ==
    IF s # <<>> /\ EhEspaco(Head(s)) THEN lstrip(Tail(s)) ELSE s

RECURSIVE rstrip(_)
rstrip(s) ==
    IF s # <<>> /\ EhEspaco(s[Len(s)]) THEN rstrip(SubSeq(s, 1, Len(s) - 1)) ELSE s

\* str.strip()
strip(s) == rstrip(lstrip(s))

\* Python's  sub in s  on strings
contem(sub, s) ==
    \E i \in 0..(Len(s) - Len(sub)) : SubSeq(s, i + 1, i + Len(sub)) = sub

\* ord(c)
codigo ==
    [c \in Caracteres |->
        IF c = " " THEN 32
        ELSE IF c = "/" THEN 47
        ELSE IF EmTabela(Digitos, c) THEN 47 + posicao(Digitos, c)
        ELSE IF EmTabela(Maiusculas, c) THEN 64 + posicao(Maiusculas, c)
        ELSE 96 + posicao(Minusculas, c)]

\* Python's  a < b  on strings
RECURSIVE menor(_, _)
menor(a, b) ==
    IF b = <<>> THEN FALSE
    ELSE IF a = <<>> THEN TRUE
    ELSE IF codigo[Head(a)] # codigo[Head(b)] THEN codigo[Head(a)] < codigo[Head(b)]
    ELSE menor(Tail(a), Tail(b))

----------------------------------------------------------------------------
(* Dates: pd.to_datetime(..., dayfirst=True, errors='coerce') and strftime *)

NaT == -1

ConjuntoDeDigitos == {Digitos[i] : i \in 1..10}

EhDigito(c) == c \in ConjuntoDeDigitos

\* the value of a digit character
digito == [c \in ConjuntoDeDigitos |-> posicao(Digitos, c) - 1]

\* int() of the first n characters of a text of digits
RECURSIVE inteiro_ate(_, _)
inteiro_ate(s, n) == IF n = 0 THEN 0 ELSE 10 * inteiro_ate(s, n - 1) + digito[s[n]]

\* int() of a text of digits
inteiro(s) == inteiro_ate(s, Len(s))

SoDigitos(s) == s # <<>> /\ \A j \in 1..Len(s) : EhDigito(s[j])

bissexto(y) == (y % 4 = 0 /\ y % 100 # 0) \/ y % 400 = 0

dias_no_mes(m, y) ==
    IF m = 2 THEN (IF bissexto(y) THEN 29 ELSE 28)
    ELSE IF m \in {4, 6, 9, 11} THEN 30 ELSE 31

\* a Timestamp, as a number that orders as the calendar does
timestamp(d, m, y) == y * 10000 + m * 100 + d

\* the date of three numeric fields read day first; NaT when it is no calendar date
data_valida(dia, mes, ano) ==
    IF ~(SoDigitos(dia) /\ SoDigitos(mes) /\ SoDigitos(ano)) THEN NaT
    ELSE LET d == inteiro(dia)
             m == inteiro(mes)
             y == inteiro(ano)
         IN  IF m \in 1..12 /\ d \in 1..dias_no_mes(m, y) THEN timestamp(d, m, y) ELSE NaT

\* the day-first reading of a text of three "/"-separated fields; NaT for any other text
to_datetime(s) ==
    LET barras == {i \in 1..Len(s) : s[i] = "/"}
    IN  IF Cardinality(barras) # 2 THEN NaT
        ELSE LET a == CHOOSE i \in barras : \A j \in barras : i <= j
                 b == CHOOSE i \in barras : \A j \in barras : j <= i
             IN  data_valida(SubSeq(s, 1, a - 1), SubSeq(s, a + 1, b - 1),
                             SubSeq(s, b + 1, Len(s)))

caractere(n) == Digitos[n + 1]

dois_digitos(n) == <<caractere((n \div 10) % 10), caractere(n % 10)>>

quatro_digitos(n) == dois_digitos(n \div 100) \o dois_digitos(n % 100)

\* Timestamp.strftime('%d/%m/%Y')
strftime(t) ==
    dois_digitos(t % 100) \o <<"/">> \o dois_digitos((t \div 100) % 100)
        \o <<"/">> \o quatro_digitos(t \div 10000)

----------------------------------------------------------------------------
(* The classifier, lines 14-60 *)

\* the column names of an uploaded table (df.columns, line 116)
colunas_disponiveis == {"proc", "mov", "data"}

\* df[[col_processo, col_movimento, col_data]] raises KeyError (line 21): the one
\* exception of lines 19-32 that tables of texts can raise
KeyError(c1, c2, c3) == ~({c1, c2, c3} \subseteq colunas_disponiveis)

\* astype(str) on a cell that is a text already (line 27)
astype_str(v) == v

\* lines 21-29: the three mapped columns under their standard names, converted
padronizar(r, c1, c2, c3) ==
    [numero_processo |-> astype_str(r[c1]),
     tipo_movimento  |-> strip(r[c2]),
     data_movimento  |-> to_datetime(r[c3])]

\* dropna left out: the rows of unparsable date stay in the table
dropna_esquecido(t) == t

\* line 32: dropna(subset=['data_movimento'])
dropna(t) == SelectSeq(t, LAMBDA r : r.data_movimento # NaT)

\* lines 21-32
df_analise(t, c1, c2, c3) ==
    dropna([i \in 1..Len(t) |-> padronizar(t[i], c1, c2, c3)])

\* the group keys of groupby('numero_processo'), which iterates them in sorted order
RECURSIVE ordenar(_)
ordenar(S) ==
    IF S = {} THEN <<>>
    ELSE LET k == CHOOSE x \in S : \A y \in S \ {x} : menor(x, y)
         IN  <<k>> \o ordenar(S \ {k})

\* one key per row instead of one per group
chaves_por_linha(t) == [i \in 1..Len(t) |-> t[i].numero_processo]

processos_agrupados(t) == ordenar({t[i].numero_processo : i \in 1..Len(t)})

\* the rows of one group, in the order of the table
movimentos(t, k) == SelectSeq(t, LAMBDA r : r.numero_processo = k)

\* ascending=True: a row of the least date comes first
primeira_posicao_crescente(m) ==
    CHOOSE i \in 1..Len(m) :
        /\ \A j \in 1..Len(m) : m[i].data_movimento <= m[j].data_movimento
        /\ \A j \in 1..(i - 1) : m[j].data_movimento # m[i].data_movimento

\* the position sort_values puts first: a row of the greatest date; among rows of
\* equal date the default kind='quicksort' promises no order, and the build decides
primeira_posicao(m) ==
    LET maiores == {i \in 1..Len(m) :
                       \A j \in 1..Len(m) : m[j].data_movimento <= m[i].data_movimento}
    IN  IF desempate = "primeiro"
        THEN CHOOSE i \in maiores : \A j \in maiores : i <= j
        ELSE CHOOSE i \in maiores : \A j \in maiores : j <= i

\* line 45: sort_values(by='data_movimento', ascending=False)
RECURSIVE movimentos_ordenados(_)
movimentos_ordenados(m) ==
    IF m = <<>> THEN <<>>
    ELSE LET i == primeira_posicao(m)
         IN  <<m[i]>> \o movimentos_ordenados(SubSeq(m, 1, i - 1) \o SubSeq(m, i + 1, Len(m)))

\* all(...) in place of any(...)
todos_os_termos(texto, termos) ==
    LET t == lower(texto)
    IN  \A i \in 1..Len(termos) : LET sub == lower(termos[i]) IN contem(sub, t)

\* line 51: any(termo.lower() in str(...).lower() for termo in movimentos_arquivamento)
algum_termo(texto, termos) ==
    LET t == lower(texto)
    IN  \E i \in 1..Len(termos) : LET sub == lower(termos[i]) IN contem(sub, t)

\* the record keeps the lowercased text the match was made on
detalhe_minusculo(u) ==
    [numero    |-> u.numero_processo,
     movimento |-> lower(u.tipo_movimento),
     data      |-> strftime(u.data_movimento)]

\* lines 53-57: one detail record
detalhe(u) ==
    [numero    |-> u.numero_processo,
     movimento |-> u.tipo_movimento,
     data      |-> strftime(u.data_movimento)]

\* pd.DataFrame(records): the columns are those of the records, none when there are none
DataFrame(registros) ==
    [columns |-> IF registros = <<>> THEN {} ELSE {"numero", "movimento", "data"},
     rows    |-> registros]

\* the list outlives the call (a mutable default argument)
processos_arquivados_persistente == retorno.lista

\* line 38: the list of archived case numbers before the loop
processos_arquivados == <<>>

\* line 39: the list of detail records before the loop
detalhes_arquivados == <<>>

\* lines 44-57: the loop over the groups, from the lists as they stand
RECURSIVE percorrer(_, _, _, _, _)
percorrer(t, chaves, termos, arquivados, detalhes) ==
    IF chaves = <<>> THEN [lista |-> arquivados, detalhes |-> detalhes]
    ELSE LET ordenados == movimentos_ordenados(movimentos(t, Head(chaves)))
         IN  IF ordenados # <<>> /\ algum_termo(ordenados[1].tipo_movimento, termos)
             THEN percorrer(t, Tail(chaves), termos,
                            Append(arquivados, Head(chaves)),
                            Append(detalhes, detalhe(ordenados[1])))
             ELSE percorrer(t, Tail(chaves), termos, arquivados, detalhes)

\* lines 14-60: what the call returns, and whether it reported an error (line 35)
analisar_processos(t, c1, c2, c3, termos) ==
    IF KeyError(c1, c2, c3)
    THEN [lista |-> <<>>, df_resultados |-> DataFrame(<<>>), st_error |-> TRUE]
    ELSE LET a == df_analise(t, c1, c2, c3)
             r == percorrer(a, processos_agrupados(a), termos,
                            processos_arquivados, detalhes_arquivados)
         IN  [lista |-> r.lista, df_resultados |-> DataFrame(r.detalhes), st_error |-> FALSE]

----------------------------------------------------------------------------
(* The page, lines 76-133 *)

\* lines 80-86
movimentos_padrao ==
    << <<"A", "r", "q", "u", "i", "v", "a", "d", "o", " ",
         "D", "e", "f", "i", "n", "i", "t", "i", "v", "a", "m", "e", "n", "t", "e">>,
       <<"D", "e", "t", "e", "r", "m", "i", "n", "a", "d", "o", " ", "o", " ",
         "A", "r", "q", "u", "i", "v", "a", "m", "e", "n", "t", "o">>,
       <<"D", "e", "t", "e", "r", "m", "i", "n", "a", "d", "o", " ", "o", " ",
         "a", "r", "q", "u", "i", "v", "a", "m", "e", "n", "t", "o", " ",
         "d", "e", "f", "i", "n", "i", "t", "i", "v", "o">>,
       <<"D", "e", "f", "i", "n", "i", "t", "i", "v", "o">>,
       <<"B", "a", "i", "x", "a", " ", "D", "e", "f", "i", "n", "i", "t", "i", "v", "a">> >>

\* line 92 without its filter: blank lines become empty terms
linhas_sem_filtro(linhas) == [i \in 1..Len(linhas) |-> strip(linhas[i])]

\* line 92: the lines of the text area, stripped, the blank ones left out
movimentos_de_arquivamento(linhas) ==
    LET manter == SelectSeq(linhas, LAMBDA l : strip(l) # <<>>)
    IN  [i \in 1..Len(manter) |-> strip(manter[i])]

\* line 127: len(set([col_processo, col_movimento, col_data])) < 3
mesma_coluna(c1, c2, c3) == Cardinality({c1, c2, c3}) < 3

\* no call has returned in this run of the script
sem_retorno == [feito |-> FALSE, lista |-> <<>>, df_resultados |-> DataFrame(<<>>)]

\* the returned pair of a call (line 133)
retornado(r) == [feito |-> TRUE, lista |-> r.lista, df_resultados |-> r.df_resultados]

\* the message of line 35, if the call showed it
mensagem(r) == IF r.st_error THEN "colunas" ELSE ""

----------------------------------------------------------------------------
(* The inputs the model draws from *)

Processos == { <<"P", "1">>, <<"P", "2">> }

Movimentos == { <<"D", "e", "f", "i", "n", "i", "t", "i", "v", "o", " ">>,
                <<"R", "e", "c", "u", "r", "s", "o">> }

Datas == { <<"1", "/", "2", "/", "2", "0", "2", "4">>,
           <<"0", "2", "/", "0", "1", "/", "2", "0", "2", "4">>,
           <<"3", "1", "/", "1", "3", "/", "2", "0", "2", "4">> }

Linhas == [proc : Processos, mov : Movimentos, data : Datas]

Tabelas == UNION {[1..n -> Linhas] : n \in 0..MaxLinhas}

\* the tables of one case whose dates all parse
LinhasSimples ==
    {r \in Linhas : r.proc = <<"P", "1">> /\ to_datetime(r.data) # NaT}

TabelasSimples == UNION {[1..n -> LinhasSimples] : n \in 0..MaxLinhas}

\* lines the user types into the text area: two terms, and a line of white space
TermosDigitados == { <<" ", "D", "E", "F", "I", "N">>,
                     <<"r", "e", "c", "u", "r", "s", "o">> }

LinhasDeTermos == TermosDigitados \cup { <<" ">> }

NomesDeColuna == colunas_disponiveis \cup {"x"}

----------------------------------------------------------------------------
(* The state machine *)

\* a sheet is loaded (lines 102-107), the text area holds the default terms (line 89)
\* and the three select boxes their defaults, index 0, 1 and 2 (lines 120-124)
Carregado(tabelas) ==
    /\ desempate \in {"primeiro", "ultimo"}
    /\ df \in tabelas
    /\ movimentos_input = movimentos_padrao
    /\ col_processo = "proc"
    /\ col_movimento = "mov"
    /\ col_data = "data"
    /\ retorno = sem_retorno
    /\ erro = ""

Init == Carregado(Tabelas)

InitTermos == Carregado(TabelasSimples)

\* the user empties the text area; the script runs again with the button not pressed
LimparTermos ==
    /\ movimentos_input # <<>>
    /\ movimentos_input' = <<>>
    /\ retorno' = sem_retorno
    /\ erro' = IF mesma_coluna(col_processo, col_movimento, col_data) THEN "mapeamento" ELSE ""
    /\ UNCHANGED <<desempate, df, col_processo, col_movimento, col_data>>

\* the user types one more line into the text area
AdicionarLinha(l) ==
    /\ Len(movimentos_input) < MaxTermos
    /\ movimentos_input' = Append(movimentos_input, l)
    /\ retorno' = sem_retorno
    /\ erro' = IF mesma_coluna(col_processo, col_movimento, col_data) THEN "mapeamento" ELSE ""
    /\ UNCHANGED <<desempate, df, col_processo, col_movimento, col_data>>

\* lines 120-128: the user picks another column in one of the three select boxes
\* (which = 1, 2, 3); the script runs again and reports a column picked twice
Selecionar(which, c) ==
    /\ {col_processo, col_movimento, col_data} \subseteq colunas_disponiveis
    /\ <<col_processo, col_movimento, col_data>>[which] # c
    /\ col_processo' = IF which = 1 THEN c ELSE col_processo
    /\ col_movimento' = IF which = 2 THEN c ELSE col_movimento
    /\ col_data' = IF which = 3 THEN c ELSE col_data
    /\ retorno' = sem_retorno
    /\ erro' = IF mesma_coluna(col_processo', col_movimento', col_data')
               THEN "mapeamento" ELSE ""
    /\ UNCHANGED <<desempate, df, movimentos_input>>

\* lines 129-133: the button, shown only when the three columns differ
Analisar ==
    /\ ~mesma_coluna(col_processo, col_movimento, col_data)
    /\ LET r == analisar_processos(df, col_processo, col_movimento, col_data,
                                   movimentos_de_arquivamento(movimentos_input))
       IN  /\ retorno' = retornado(r)
           /\ erro' = mensagem(r)
    /\ UNCHANGED <<desempate, df, movimentos_input, col_processo, col_movimento, col_data>>

\* a caller other than the page calls analisar_processos with column names of its own
Chamar(c1, c2, c3) ==
    /\ ~retorno.feito
    /\ <<col_processo, col_movimento, col_data>> = <<"proc", "mov", "data">>
    /\ col_processo' = c1
    /\ col_movimento' = c2
    /\ col_data' = c3
    /\ LET r == analisar_processos(df, c1, c2, c3,
                                   movimentos_de_arquivamento(movimentos_input))
       IN  /\ retorno' = retornado(r)
           /\ erro' = mensagem(r)
    /\ UNCHANGED <<desempate, df, movimentos_input>>

\* a session of the page with the default column mapping
Next ==
    \/ LimparTermos
    \/ \E l \in TermosDigitados : AdicionarLinha(l)
    \/ Analisar

Spec == Init /\ [][Next]_vars

\* the same session, where the user also leaves blank lines in the text area
NextTermos ==
    \/ LimparTermos
    \/ \E l \in LinhasDeTermos : AdicionarLinha(l)
    \/ Analisar

SpecTermos == InitTermos /\ [][NextTermos]_vars

\* the column mapping varies: picked on the page, or passed by another caller
NextMapeamento ==
    \/ \E which \in 1..3, c \in colunas_disponiveis : Selecionar(which, c)
    \/ Analisar
    \/ \E c1, c2, c3 \in NomesDeColuna : Chamar(c1, c2, c3)

SpecMapeamento == Init /\ [][NextMapeamento]_vars

----------------------------------------------------------------------------------------------------------------------------------------
(* What the claims speak of, read off the table (not off the classifier's steps) *)

\* the term list the page passes to the classifier
termos_passados == movimentos_de_arquivamento(movimentos_input)

\* the date of each row of the table, NaT where it does not parse
DatasLidas == [i \in 1..Len(df) |-> to_datetime(df[i][col_data])]

\* the rows whose date parses, d being the dates of the rows
LinhasValidas(d) == {i \in 1..Len(df) : d[i] # NaT}

\* the valid rows of case k
DoCaso(d, k) == {i \in LinhasValidas(d) : df[i][col_processo] = k}

\* the valid rows of case k that carry its greatest date
MaisRecentes(d, k) == {i \in DoCaso(d, k) : \A j \in DoCaso(d, k) : d[j] <= d[i]}

\* the movement text of row i contains a term, letter case aside
Casa(i, termos) ==
    \E n \in 1..Len(termos) : contem(lower(termos[n]), lower(df[i][col_movimento]))

TodosOsCasos == {df[i][col_processo] : i \in 1..Len(df)}

Arquivados == {retorno.lista[n] : n \in 1..Len(retorno.lista)}

Registros == retorno.df_resultados.rows

\* the returned pair alone
Par(r) == <<r.lista, r.df_resultados>>

----------------------------------------------------------------------------
(* C1 *)

\* C1: a case is archived exactly when it has a date-parseable row and the movement
\* text of its row of greatest date contains one of the terms, letter case aside
\* (where several rows share the greatest date: archived only if one of them
\* matches, and always if all of them match); a match in an earlier row does not count.
C1_UltimoMovimentoDecide ==
    retorno.feito =>
        LET d == DatasLidas
            casam == {i \in 1..Len(df) : Casa(i, termos_passados)}
        IN  \A k \in TodosOsCasos \cup Arquivados :
                LET m == MaisRecentes(d, k)
                IN  /\ k \in Arquivados => m \cap casam # {}
                    /\ (m # {} /\ m \subseteq casam) => k \in Arquivados

\* a run that left out a case whose earlier movement matches and whose latest does not
C1_Witness ==
    /\ retorno.feito
    /\ \E k \in TodosOsCasos \ Arquivados :
           \E i, j \in DoCaso(DatasLidas, k) :
               /\ DatasLidas[i] < DatasLidas[j]
               /\ Casa(i, termos_passados)
               /\ ~Casa(j, termos_passados)

----------------------------------------------------------------------------
(* C2 *)

----------------------------------------------------------------------------
(* C3 *)

\* C3: a call whose mapped column is missing from the table, or whose three column
\* names are not pairwise distinct, reports a failure and returns no archived case
\* and no detail record.
C3_MapeamentoInvalidoFalha ==
    (retorno.feito /\ (KeyError(col_processo, col_movimento, col_data)
                       \/ mesma_coluna(col_processo, col_movimento, col_data)))
        => (erro # "" /\ retorno.lista = <<>> /\ Registros = <<>>)

----------------------------------------------------------------------------
(* C4 *)

\* what a call that succeeds and archives no case returns
RetornoSemArquivados == Par(analisar_processos(<<>>, "proc", "mov", "data", <<>>))

\* C4: a call that failed on its configuration never returns the value that a
\* successful call with no archived case returns.
C4_FalhaDistinguivel ==
    (retorno.feito /\ erro = "colunas") => Par(retorno) # RetornoSemArquivados

----------------------------------------------------------------------------
(* C5 *)

\* the table without the rows whose date does not parse
SemInvalidas(d) ==
    LET validas == {i \in 1..Len(df) : d[i] # NaT}
        F[n \in 0..Len(df)] ==
            IF n = 0 THEN <<>>
            ELSE IF n \in validas THEN Append(F[n - 1], df[n]) ELSE F[n - 1]
    IN  F[Len(df)]

\* C5: the call reports no error and returns what it returns on the table with the
\* rows of unparsable date removed; a case with no parseable row is not archived.
C5_DataInvalidaAusente ==
    retorno.feito =>
        LET d == DatasLidas
        IN  /\ erro = ""
            /\ Par(retorno) = Par(analisar_processos(SemInvalidas(d), col_processo,
                                                     col_movimento, col_data, termos_passados))
            /\ \A k \in TodosOsCasos : DoCaso(d, k) = {} => k \notin Arquivados

\* an archived case whose last row in the table has an unparsable date
C5_Witness ==
    /\ retorno.feito
    /\ \E k \in Arquivados :
           \E i \in 1..Len(df) :
               /\ df[i][col_processo] = k
               /\ DatasLidas[i] = NaT
               /\ \A j \in 1..Len(df) : df[j][col_processo] = k => j <= i

----------------------------------------------------------------------------
(* C6 *)

\* C6: the archived list names no case twice and only cases of date-parseable rows;
\* the detail records hold one record for each archived case and none for another.
C6_UmRegistroPorArquivado ==
    retorno.feito =>
        LET d == DatasLidas
        IN  /\ Cardinality(Arquivados) = Len(retorno.lista)
            /\ Arquivados \subseteq {df[i][col_processo] : i \in LinhasValidas(d)}
            /\ \A k \in Arquivados :
                   Cardinality({n \in 1..Len(Registros) : Registros[n].numero = k}) = 1
            /\ \A n \in 1..Len(Registros) : Registros[n].numero \in Arquivados

\* an archived case with two parseable rows
C6_Witness ==
    /\ retorno.feito
    /\ \E k \in Arquivados : Cardinality(DoCaso(DatasLidas, k)) >= 2

----------------------------------------------------------------------------
(* C7 *)

EhBranca(l) == \A i \in 1..Len(l) : l[i] = " "

Inverso(q) == [i \in 1..Len(q) |-> q[Len(q) + 1 - i]]

\* the archived set the page gets from these lines of the text area
ArquivadosCom(linhas) ==
    LET r == analisar_processos(df, col_processo, col_movimento, col_data,
                                movimentos_de_arquivamento(linhas))
    IN  {r.lista[n] : n \in 1..Len(r.lista)}

\* C7: blank lines of the term text area do not change the archived set (lines that
\* are all blank archive nothing), nor does reordering or repeating the lines.
C7_LinhasEmBrancoSemEfeito ==
    retorno.feito =>
        /\ Arquivados = ArquivadosCom(SelectSeq(movimentos_input, LAMBDA l : ~EhBranca(l)))
        /\ (\A n \in 1..Len(movimentos_input) : EhBranca(movimentos_input[n])) => Arquivados = {}
        /\ Arquivados = ArquivadosCom(Inverso(movimentos_input))
        /\ Arquivados = ArquivadosCom(movimentos_input \o movimentos_input)

\* a run with a blank line and a term, which archived nothing although a row is there
C7_Witness ==
    /\ retorno.feito
    /\ \E n \in 1..Len(movimentos_input) : EhBranca(movimentos_input[n])
    /\ \E n \in 1..Len(movimentos_input) : ~EhBranca(movimentos_input[n])
    /\ LinhasValidas(DatasLidas) # {}
    /\ Arquivados = {}

----------------------------------------------------------------------------
(* C8 *)

\* C8: with an empty term list the call returns no archived case and no detail record.
C8_SemTermosNadaArquivado ==
    (retorno.feito /\ termos_passados = <<>>) => (retorno.lista = <<>> /\ Registros = <<>>)

\* such a run on a table with a row that the default terms would match
C8_Witness ==
    /\ retorno.feito
    /\ termos_passados = <<>>
    /\ \E i \in LinhasValidas(DatasLidas) : Casa(i, movimentos_padrao)

----------------------------------------------------------------------------
(* C9 *)

\* text is the cell with its leading and trailing white space removed, letters as they are
Aparado(texto, celula) ==
    /\ texto = <<>> \/ (texto[1] # " " /\ texto[Len(texto)] # " ")
    /\ \E a \in 0..Len(celula) :
           /\ a + Len(texto) <= Len(celula)
           /\ SubSeq(celula, a + 1, a + Len(texto)) = texto
           /\ \A j \in (1..a) \cup ((a + Len(texto) + 1)..Len(celula)) : celula[j] = " "

\* text is a date written day/month/year, two, two and four digits
DiaMesAno(texto, data) ==
    /\ Len(texto) = 10
    /\ texto[3] = "/"
    /\ texto[6] = "/"
    /\ data = timestamp(inteiro(SubSeq(texto, 1, 2)), inteiro(SubSeq(texto, 4, 5)),
                        inteiro(SubSeq(texto, 7, 10)))

\* C9: each detail record carries its case number and, from one and the same row, a
\* valid row of greatest date of that case that matches a term: its movement text
\* trimmed, letter case kept, and its date written day/month/year.
C9_RegistroDaLinhaEscolhida ==
    retorno.feito =>
        LET d == DatasLidas
            ts == termos_passados
        IN  \A n \in 1..Len(Registros) :
                \E i \in MaisRecentes(d, Registros[n].numero) :
                    /\ Casa(i, ts)
                    /\ Aparado(Registros[n].movimento, df[i][col_movimento])
                    /\ DiaMesAno(Registros[n].data, d[i])

\* a record of a case with two matching rows of different text and date, the
\* selected one with white space and capitals in its text
C9_Witness ==
    /\ retorno.feito
    /\ \E n \in 1..Len(Registros) :
           \E i, j \in DoCaso(DatasLidas, Registros[n].numero) :
               /\ DatasLidas[j] < DatasLidas[i]
               /\ Casa(i, termos_passados) /\ Casa(j, termos_passados)
               /\ df[i][col_movimento] # df[j][col_movimento]
               /\ Registros[n].movimento # df[i][col_movimento]
               /\ Registros[n].movimento # lower(Registros[n].movimento)
               /\ Registros[n].data # df[i][col_data]

----------------------------------------------------------------------------
(* C10 *)

====
